---- MODULE Spec2Model ----
(***************************************************************************)
(* Post-execution views of zenml: one PEStep (src/zenml/post_execution/    *)
(* step.py) over a metadata store, and the PEArtifact objects it builds    *)
(* (src/zenml/post_execution/artifact.py).                                 *)
(*                                                                         *)
(* The metadata store is the environment: its records (executions, events, *)
(* artifacts, artifact types) are state, written by the pipeline that is   *)
(* being inspected.  Every public method of PEStep is one action; a call   *)
(* runs to completion before the store changes again.                      *)
(***************************************************************************)
EXTENDS Integers, Sequences, FiniteSets, TLC

\* ------------------------------------------------------------------ bounds
MaxEvents == 2      \* events the store holds for the step's execution
MaxCalls == 2       \* accessor calls made on the PEStep
MaxPolls == 2       \* status accesses made on the PEStep
MaxReads == 2       \* read calls made on the artifacts of the PEStep
NumThreads == 2     \* threads that call inputs on the same PEStep at once

\* --------------------------------------------------------------- constants
StepId == 1                                   \* PEStep._id
MATERIALIZERS_PROPERTY_KEY == "materializers" \* zenml.artifacts.base_artifact

\* members of ExecutionStatus, by member name
ExecutionStatus == {"Failed", "Completed", "Running"}

\* values of Execution.last_known_state in the store's execution proto
ExecutionStates ==
    {"UNKNOWN", "NEW", "RUNNING", "COMPLETE", "FAILED", "CACHED", "CANCELED"}

\* values of Event.type in the store's event proto
EventTypes == {"INPUT", "OUTPUT", "DECLARED_OUTPUT"}

\* keys of event_proto.path.steps[0]
ParameterNames == {"data", "model"}

\* the order of the parameters in the signature of the step function
Signature == <<"data", "model">>

\* artifact ids, and the artifact records of the store
ArtifactIds == {10, 20}
TypeIds == {1, 2}
TypeNames == [t \in TypeIds |-> IF t = 1 THEN "Dataset" ELSE "Model"]

\* artifact 10 was written with a materializer, artifact 20 carries no
\* materializer property
ArtifactProto(id) ==
    [id |-> id,
     type_id |-> IF id = 10 THEN 1 ELSE 2,
     uri |-> IF id = 10 THEN "/a/10" ELSE "/a/20",
     properties |-> IF id = 10
                    THEN [k \in {MATERIALIZERS_PROPERTY_KEY} |-> "m.DatasetMaterializer"]
                    ELSE [k \in {} |-> ""]]

\* the store holds no execution record
NoExecutions == [i \in {} |-> "UNKNOWN"]

EventProto(artifact_id, key, type) ==
    [artifact_id |-> artifact_id, key |-> key, type |-> type]

AllEvents ==
    {EventProto(i, k, t) : i \in ArtifactIds, k \in ParameterNames, t \in EventTypes}

VARIABLES
    executions,      \* store: execution id -> last_known_state (present ids)
    events,          \* store: the events of execution StepId, in store order
    artifacts,       \* store: artifact id -> artifact proto
    artifact_types,  \* store: type id -> type name (registered types)
    inputs,          \* PEStep._inputs, an OrderedDict
    outputs,         \* PEStep._outputs, an OrderedDict
    ret,             \* what the last call did: method, argument, outcome, queries
    calls,           \* number of method calls made so far
    accessor_calls,  \* number of those that were inputs/outputs accessors
    event_queries,   \* number of get_events_by_execution_ids queries so far
    join_state,      \* "none", or how the last executed join ended
    memo,            \* the mappings after the first accessor call that returned
    statuses,        \* what the last two status accesses gave, oldest first
    total_queries,   \* number of store queries of any kind so far
    constructed,     \* PEStep.__init__ has run
    step_name,       \* PEStep._name
    parameters,      \* PEStep._parameters: a reference to a dict object
    heap,            \* the dict objects: reference -> dict
    storage,         \* artifact store: uri -> stored payload
    read_ret,        \* what the last PEArtifact.read did
    prev_read,       \* what the read before it did
    reads,           \* number of read calls made so far
    resolutions,     \* number of materializer source paths resolved so far
    storage_reads,   \* number of payloads read from the artifact store so far
    threads          \* the threads inside PEStep.inputs: thread -> position, locals

store == <<executions, events, artifacts, artifact_types>>
view == <<inputs, outputs>>
ghost == <<accessor_calls, event_queries, join_state, memo, statuses, total_queries>>
object == <<constructed, step_name, parameters, heap>>
reading == <<storage, read_ret, prev_read, reads, resolutions, storage_reads>>
vars == <<executions, events, artifacts, artifact_types, inputs, outputs, ret,
          calls, accessor_calls, event_queries, join_state, memo, statuses,
          total_queries, constructed, step_name, parameters, heap,
          storage, read_ret, prev_read, reads, resolutions, storage_reads, threads>>

\* ------------------------------------------------------------- OrderedDict
\* An OrderedDict is the sequence of its items in insertion order.
EmptyDict == <<>>

Keys(d) == [i \in 1..Len(d) |-> d[i].key]

Values(d) == [i \in 1..Len(d) |-> d[i].value]

HasKey(d, k) == \E i \in 1..Len(d) : d[i].key = k

GetItem(d, k) == d[CHOOSE i \in 1..Len(d) : d[i].key = k].value

\* variant: a new key goes to the front
SetItemFront(d, k, v) ==
    IF HasKey(d, k)
    THEN [i \in 1..Len(d) |-> IF d[i].key = k THEN [key |-> k, value |-> v] ELSE d[i]]
    ELSE <<[key |-> k, value |-> v]>> \o d

\* variant: a present key keeps its first value
SetItemKeepFirst(d, k, v) ==
    IF HasKey(d, k) THEN d ELSE Append(d, [key |-> k, value |-> v])

\* d[k] = v: a present key keeps its position, a new key goes to the end
SetItem(d, k, v) ==
    IF HasKey(d, k)
    THEN [i \in 1..Len(d) |-> IF d[i].key = k THEN [key |-> k, value |-> v] ELSE d[i]]
    ELSE Append(d, [key |-> k, value |-> v])

\* ------------------------------------------------------------ call outcomes
Return(v) == [kind |-> "return", val |-> v]

Raise(exc, args) == [kind |-> "raise", exc |-> exc, args |-> args]

NoError == [kind |-> "none"]

Query(name, arg) == [name |-> name, arg |-> arg]

CountQueries(qs, name) == Cardinality({i \in 1..Len(qs) : qs[i].name = name})

\* --------------------------------------------------------------- the store
get_executions_by_id(ids) ==
    LET found == SelectSeq(ids, LAMBDA i : i \in DOMAIN executions)
    IN  [k \in 1..Len(found) |-> [id |-> found[k], last_known_state |-> executions[found[k]]]]

get_artifact_types == artifact_types

get_events_by_execution_ids(ids) ==
    IF StepId \in {ids[k] : k \in 1..Len(ids)} THEN events ELSE <<>>

get_artifacts_by_id(ids) ==
    LET found == SelectSeq(ids, LAMBDA i : i \in DOMAIN artifacts)
    IN  [k \in 1..Len(found) |-> artifacts[found[k]]]

\* proto map field: reading a key that is not set yields the default value
StringValue(properties, key) ==
    IF key \in DOMAIN properties THEN properties[key] ELSE ""

\* ---------------------------------------------------------------- PEArtifact
\* variant: type and uri are stored in each other's field
PEArtifactSwapped(id_, type_, uri, materializer) ==
    [id |-> id_, type |-> uri, uri |-> type_, materializer |-> materializer]

PEArtifact(id_, type_, uri, materializer) ==
    [id |-> id_, type |-> type_, uri |-> uri, materializer |-> materializer]

\* -------------------------------------------------------------------- PEStep
Min(a, b) == IF a < b THEN a ELSE b

\* variant: an event that is not INPUT is taken for an output
RECURSIVE JoinLoopElseOutput(_, _, _, _, _, _)
JoinLoopElseOutput(evs, arts, artifact_type_mapping, i, inp, out) ==
    IF i > Min(Len(evs), Len(arts))
    THEN [inputs |-> inp, outputs |-> out, error |-> NoError]
    ELSE LET event_proto == evs[i]
             artifact_proto == arts[i]
         IN  IF artifact_proto.type_id \notin DOMAIN artifact_type_mapping
             THEN [inputs |-> inp, outputs |-> out,
                   error |-> Raise("KeyError", [key |-> artifact_proto.type_id])]
             ELSE LET artifact == PEArtifact(event_proto.artifact_id,
                                             artifact_type_mapping[artifact_proto.type_id],
                                             artifact_proto.uri,
                                             StringValue(artifact_proto.properties,
                                                         MATERIALIZERS_PROPERTY_KEY))
                  IN  JoinLoopElseOutput(evs, arts, artifact_type_mapping, i + 1,
                               IF event_proto.type = "INPUT"
                               THEN SetItem(inp, event_proto.key, artifact) ELSE inp,
                               IF event_proto.type # "INPUT"
                               THEN SetItem(out, event_proto.key, artifact) ELSE out)

\* variant: the view's id is read from the artifact record of the pair
RECURSIVE JoinLoopRecordId(_, _, _, _, _, _)
JoinLoopRecordId(evs, arts, artifact_type_mapping, i, inp, out) ==
    IF i > Min(Len(evs), Len(arts))
    THEN [inputs |-> inp, outputs |-> out, error |-> NoError]
    ELSE LET event_proto == evs[i]
             artifact_proto == arts[i]
         IN  IF artifact_proto.type_id \notin DOMAIN artifact_type_mapping
             THEN [inputs |-> inp, outputs |-> out,
                   error |-> Raise("KeyError", [key |-> artifact_proto.type_id])]
             ELSE LET artifact == PEArtifact(artifact_proto.id,
                                             artifact_type_mapping[artifact_proto.type_id],
                                             artifact_proto.uri,
                                             StringValue(artifact_proto.properties,
                                                         MATERIALIZERS_PROPERTY_KEY))
                  IN  JoinLoopRecordId(evs, arts, artifact_type_mapping, i + 1,
                               IF event_proto.type = "INPUT"
                               THEN SetItem(inp, event_proto.key, artifact) ELSE inp,
                               IF event_proto.type = "OUTPUT"
                               THEN SetItem(out, event_proto.key, artifact) ELSE out)

\* the loop over zip(events, artifacts): stops at the first lookup that raises
\* and leaves in the mappings what the earlier pairs inserted
RECURSIVE JoinLoop(_, _, _, _, _, _)
JoinLoop(evs, arts, artifact_type_mapping, i, inp, out) ==
    IF i > Min(Len(evs), Len(arts))
    THEN [inputs |-> inp, outputs |-> out, error |-> NoError]
    ELSE LET event_proto == evs[i]
             artifact_proto == arts[i]
         IN  IF artifact_proto.type_id \notin DOMAIN artifact_type_mapping
             THEN [inputs |-> inp, outputs |-> out,
                   error |-> Raise("KeyError", [key |-> artifact_proto.type_id])]
             ELSE LET artifact_type == artifact_type_mapping[artifact_proto.type_id]
                      artifact_name == event_proto.key
                      materializer ==
                          StringValue(artifact_proto.properties, MATERIALIZERS_PROPERTY_KEY)
                      artifact == PEArtifact(event_proto.artifact_id, artifact_type,
                                             artifact_proto.uri, materializer)
                  IN  JoinLoop(evs, arts, artifact_type_mapping, i + 1,
                               IF event_proto.type = "INPUT"
                               THEN SetItem(inp, artifact_name, artifact) ELSE inp,
                               IF event_proto.type = "OUTPUT"
                               THEN SetItem(out, artifact_name, artifact) ELSE out)

\* variant: the guard asks for both mappings to hold entries
AlreadyFetchedBoth(inp, out) == inp # EmptyDict /\ out # EmptyDict

\* the guard of _ensure_inputs_outputs_fetched
AlreadyFetched(inp, out) == inp # EmptyDict \/ out # EmptyDict

\* variant: the events are fetched first and each artifact is fetched once
ensure_inputs_outputs_fetched_reordered(inp, out) ==
    IF AlreadyFetched(inp, out)
    THEN [inputs |-> inp, outputs |-> out, error |-> NoError,
          queries |-> <<>>, joins |-> <<>>]
    ELSE LET evs == get_events_by_execution_ids(<<StepId>>)
             artifact_type_mapping == get_artifact_types
             ids == [i \in 1..Len(evs) |-> evs[i].artifact_id]
             arts == get_artifacts_by_id(ids)
             r == JoinLoop(evs, arts, artifact_type_mapping, 1, inp, out)
         IN  [inputs |-> r.inputs, outputs |-> r.outputs, error |-> r.error,
              queries |-> <<Query("get_events_by_execution_ids", <<StepId>>),
                            Query("get_artifact_types", <<>>),
                            Query("get_artifacts_by_id", ids)>>,
              joins |-> <<IF r.error = NoError THEN "complete" ELSE "aborted">>]

\* variant: the lengths of the two lists are compared before the loop
ensure_inputs_outputs_fetched_validating(inp, out) ==
    IF AlreadyFetched(inp, out)
    THEN [inputs |-> inp, outputs |-> out, error |-> NoError,
          queries |-> <<>>, joins |-> <<>>]
    ELSE LET artifact_type_mapping == get_artifact_types
             evs == get_events_by_execution_ids(<<StepId>>)
             ids == [i \in 1..Len(evs) |-> evs[i].artifact_id]
             arts == get_artifacts_by_id(ids)
             r == IF Len(evs) # Len(arts)
                  THEN [inputs |-> inp, outputs |-> out,
                        error |-> Raise("ValueError", [key |-> Len(arts)])]
                  ELSE JoinLoop(evs, arts, artifact_type_mapping, 1, inp, out)
         IN  [inputs |-> r.inputs, outputs |-> r.outputs, error |-> r.error,
              queries |-> <<Query("get_artifact_types", <<>>),
                            Query("get_events_by_execution_ids", <<StepId>>),
                            Query("get_artifacts_by_id", ids)>>,
              joins |-> <<IF r.error = NoError THEN "complete" ELSE "aborted">>]

\* PEStep._ensure_inputs_outputs_fetched on mappings inp, out: the mappings
\* afterwards, the error it raised, the queries it issued, the joins it ran
ensure_inputs_outputs_fetched(inp, out) ==
    IF AlreadyFetched(inp, out)
    THEN [inputs |-> inp, outputs |-> out, error |-> NoError,
          queries |-> <<>>, joins |-> <<>>]
    ELSE LET artifact_type_mapping == get_artifact_types
             evs == get_events_by_execution_ids(<<StepId>>)
             ids == [i \in 1..Len(evs) |-> evs[i].artifact_id]
             arts == get_artifacts_by_id(ids)
             r == JoinLoop(evs, arts, artifact_type_mapping, 1, inp, out)
         IN  [inputs |-> r.inputs, outputs |-> r.outputs, error |-> r.error,
              queries |-> <<Query("get_artifact_types", <<>>),
                            Query("get_events_by_execution_ids", <<StepId>>),
                            Query("get_artifacts_by_id", ids)>>,
              joins |-> <<IF r.error = NoError THEN "complete" ELSE "aborted">>]

\* a method's effect: mappings afterwards, outcome, queries issued, joins run
Effect(e, out) ==
    [inputs |-> e.inputs, outputs |-> e.outputs, out |-> out,
     queries |-> e.queries, joins |-> e.joins]

\* e2 run after e1 within one call
Then(e1, e2) ==
    [inputs |-> e2.inputs, outputs |-> e2.outputs,
     queries |-> e1.queries \o e2.queries, joins |-> e1.joins \o e2.joins]

PEStep_inputs(inp, out) ==
    LET e == ensure_inputs_outputs_fetched(inp, out)
    IN  Effect(e, IF e.error # NoError THEN e.error ELSE Return(Values(e.inputs)))

PEStep_get_input_names(inp, out) ==
    LET e == ensure_inputs_outputs_fetched(inp, out)
    IN  Effect(e, IF e.error # NoError THEN e.error ELSE Return(Keys(e.inputs)))

\* variant: the error lists the names of the other direction
PEStep_get_input_other_names(inp, out, name) ==
    LET e == ensure_inputs_outputs_fetched(inp, out)
    IN  IF e.error # NoError THEN Effect(e, e.error)
        ELSE IF HasKey(e.inputs, name) THEN Effect(e, Return(GetItem(e.inputs, name)))
        ELSE Effect(e, Raise("KeyError",
                             [direction |-> "input", name |-> name,
                              names |-> Keys(e.outputs)]))

PEStep_get_input(inp, out, name) ==
    LET e == ensure_inputs_outputs_fetched(inp, out)
    IN  IF e.error # NoError THEN Effect(e, e.error)
        ELSE IF HasKey(e.inputs, name) THEN Effect(e, Return(GetItem(e.inputs, name)))
        ELSE LET n == PEStep_get_input_names(e.inputs, e.outputs)
                 both == Then(e, n)
             IN  Effect(both, IF n.out.kind = "raise" THEN n.out
                              ELSE Raise("KeyError",
                                         [direction |-> "input", name |-> name,
                                          names |-> n.out.val]))

PEStep_outputs(inp, out) ==
    LET e == ensure_inputs_outputs_fetched(inp, out)
    IN  Effect(e, IF e.error # NoError THEN e.error ELSE Return(Values(e.outputs)))

PEStep_get_output_names(inp, out) ==
    LET e == ensure_inputs_outputs_fetched(inp, out)
    IN  Effect(e, IF e.error # NoError THEN e.error ELSE Return(Keys(e.outputs)))

PEStep_get_output(inp, out, name) ==
    LET e == ensure_inputs_outputs_fetched(inp, out)
    IN  IF e.error # NoError THEN Effect(e, e.error)
        ELSE IF HasKey(e.outputs, name) THEN Effect(e, Return(GetItem(e.outputs, name)))
        ELSE LET n == PEStep_get_output_names(e.inputs, e.outputs)
                 both == Then(e, n)
             IN  Effect(both, IF n.out.kind = "raise" THEN n.out
                              ELSE Raise("KeyError",
                                         [direction |-> "output", name |-> name,
                                          names |-> n.out.val]))

\* variant: a cached execution counts as failed
StatusOfCachedFailed(state) ==
    IF state = "COMPLETE" THEN "Completed"
    ELSE IF state = "RUNNING" THEN "Running"
    ELSE "Failed"

\* the branches of PEStep.status on proto.last_known_state
StatusOf(state) ==
    IF state = "COMPLETE" \/ state = "CACHED" THEN "Completed"
    ELSE IF state = "RUNNING" THEN "Running"
    ELSE "Failed"

\* variant: the state that was read is written back to the store's record
PEStep_status_recording(inp, out) ==
    LET protos == get_executions_by_id(<<StepId>>)
        q == <<Query("get_executions_by_id", <<StepId>>), Query("put_execution", <<StepId>>)>>
        e == [inputs |-> inp, outputs |-> out, queries |-> q, joins |-> <<>>]
    IN  IF Len(protos) = 0
        THEN Effect(e, Raise("IndexError", [index |-> 0]))
        ELSE Effect(e, Return(StatusOf(protos[1].last_known_state)))

\* variant: the first status that was read is kept and returned again
PEStep_status_cached(inp, out) ==
    LET protos == get_executions_by_id(<<StepId>>)
        q == <<Query("get_executions_by_id", <<StepId>>)>>
        e == [inputs |-> inp, outputs |-> out, queries |-> q, joins |-> <<>>]
        hit == [inputs |-> inp, outputs |-> out, queries |-> <<>>, joins |-> <<>>]
    IN  IF statuses[2] \in ExecutionStatus
        THEN Effect(hit, Return(statuses[2]))
        ELSE IF Len(protos) = 0
        THEN Effect(e, Raise("IndexError", [index |-> 0]))
        ELSE Effect(e, Return(StatusOf(protos[1].last_known_state)))

PEStep_status(inp, out) ==
    LET protos == get_executions_by_id(<<StepId>>)
        q == <<Query("get_executions_by_id", <<StepId>>)>>
        e == [inputs |-> inp, outputs |-> out, queries |-> q, joins |-> <<>>]
    IN  IF Len(protos) = 0
        THEN Effect(e, Raise("IndexError", [index |-> 0]))
        ELSE Effect(e, Return(StatusOf(protos[1].last_known_state)))

\* -------------------------------------------------------------- initial state
NoCall == [op |-> "none"]

\* parameter dicts: the parameters of the step that are set, with their values
ParameterDicts == {[k \in K |-> v] : K \in SUBSET {"lr"}, v \in {1, 2}}

\* the dict the caller passes to PEStep(...) is object 1 of the heap
CallerRef == 1

CallerDict == [k \in {"lr"} |-> 1]

StepName == "trainer"

\* payloads the artifact store can hold at a uri
Payloads == {"p1", "p2"}

Uris == {"/a/10", "/a/20"}

NoThreads == <<>>

\* the state PEStep(StepId, StepName, <object 1>, store) leaves
Constructed ==
    /\ constructed = TRUE
    /\ step_name = StepName
    /\ parameters = CallerRef
    /\ heap = [r \in {CallerRef} |-> CallerDict]
    /\ total_queries = 0

\* no artifact has been read
NothingRead ==
    /\ storage = [u \in Uris |-> "p1"]
    /\ read_ret = NoCall
    /\ prev_read = NoCall
    /\ reads = 0
    /\ resolutions = 0
    /\ storage_reads = 0

NoMemo == [set |-> FALSE]

\* ----------------------------------------------- PEStep: construction, fields
\* variant: the constructor fetches inputs and outputs at once
PEStep_init_eager(id_, name_, parameters_) ==
    LET e == ensure_inputs_outputs_fetched(EmptyDict, EmptyDict)
    IN  [name |-> name_, parameters |-> parameters_, heap |-> heap,
         inputs |-> e.inputs, outputs |-> e.outputs, queries |-> e.queries]

\* PEStep.__init__: the fields it sets, the heap afterwards, the queries issued;
\* _parameters is the reference it was passed
PEStep_init(id_, name_, parameters_) ==
    [name |-> name_, parameters |-> parameters_, heap |-> heap,
     inputs |-> EmptyDict, outputs |-> EmptyDict, queries |-> <<>>]

PEStep_name == [out |-> Return(step_name), queries |-> <<>>]

\* PEStep.parameters returns the reference held in _parameters
PEStep_parameters == [out |-> Return(parameters), queries |-> <<>>]

\* ------------------------------------------------------------ PEArtifact.read
\* no materializer_class argument
None == "None"

\* the source paths that load, and the materializer class each one names
SourceClasses == [src \in {"m.DatasetMaterializer"} |-> "DatasetMaterializer"]

\* materializer classes a caller passes to read()
OverrideClasses == {"PandasMaterializer"}

\* source_utils.load_source_path_class
load_source_path_class(source) ==
    IF source \in DOMAIN SourceClasses
    THEN Return(SourceClasses[source])
    ELSE Raise("LookupError", [source |-> source])

\* materializer_class(artifact).handle_input(): decodes what is stored at the uri
handle_input(materializer_class, artifact) ==
    [decoded_by |-> materializer_class, data |-> storage[artifact.uri]]

\* variant: a source path that does not load falls back to a built-in class
PEArtifact_read_fallback(self, materializer_class) ==
    LET loaded == IF materializer_class = None
                  THEN load_source_path_class(self.materializer)
                  ELSE Return(materializer_class)
        class == IF loaded.kind = "raise" THEN "BuiltInMaterializer" ELSE loaded.val
    IN  [self |-> self,
         out |-> Return(handle_input(class, self)),
         resolved |-> IF materializer_class = None THEN <<self.materializer>> ELSE <<>>,
         decoded |-> <<[class |-> class, uri |-> self.uri]>>]

\* variant: the stored source path is loaded whatever the argument
PEArtifact_read_ignores_argument(self, materializer_class) ==
    LET loaded == load_source_path_class(self.materializer)
    IN  IF loaded.kind = "raise"
        THEN [self |-> self, out |-> loaded,
              resolved |-> <<self.materializer>>, decoded |-> <<>>]
        ELSE [self |-> self,
              out |-> Return(handle_input(loaded.val, self)),
              resolved |-> <<self.materializer>>,
              decoded |-> <<[class |-> loaded.val, uri |-> self.uri]>>]

\* variant: what the last read of the same artifact returned is returned again
PEArtifact_read_cached(self, materializer_class) ==
    LET loaded == IF materializer_class = None
                  THEN load_source_path_class(self.materializer)
                  ELSE Return(materializer_class)
    IN  IF /\ read_ret.op = "read"
           /\ read_ret.artifact = self
           /\ read_ret.materializer_class = materializer_class
           /\ read_ret.out.kind = "return"
        THEN [self |-> self, out |-> read_ret.out, resolved |-> <<>>, decoded |-> <<>>]
        ELSE IF loaded.kind = "raise"
        THEN [self |-> self, out |-> loaded,
              resolved |-> <<self.materializer>>, decoded |-> <<>>]
        ELSE [self |-> self,
              out |-> Return(handle_input(loaded.val, self)),
              resolved |-> IF materializer_class = None THEN <<self.materializer>> ELSE <<>>,
              decoded |-> <<[class |-> loaded.val, uri |-> self.uri]>>]

\* PEArtifact.read on artifact self: the artifact afterwards, the outcome, the
\* source paths it loaded and the materializers it ran
PEArtifact_read(self, materializer_class) ==
    LET loaded == IF materializer_class = None
                  THEN load_source_path_class(self.materializer)
                  ELSE Return(materializer_class)
    IN  IF loaded.kind = "raise"
        THEN [self |-> self, out |-> loaded,
              resolved |-> <<self.materializer>>, decoded |-> <<>>]
        ELSE [self |-> self,
              out |-> Return(handle_input(loaded.val, self)),
              resolved |-> IF materializer_class = None THEN <<self.materializer>> ELSE <<>>,
              decoded |-> <<[class |-> loaded.val, uri |-> self.uri]>>]

\* ------------------------------------------------------------------- actions
Init ==
    /\ executions = [i \in {StepId} |-> "RUNNING"]
    /\ events = <<>>
    /\ artifacts = [i \in ArtifactIds |-> ArtifactProto(i)]
    /\ artifact_types \in {[t \in T |-> TypeNames[t]] : T \in {{1}, {1, 2}}}
    /\ inputs = EmptyDict
    /\ outputs = EmptyDict
    /\ ret = NoCall
    /\ calls = 0
    /\ accessor_calls = 0
    /\ event_queries = 0
    /\ join_state = "none"
    /\ memo = NoMemo
    /\ statuses = <<"none", "none">>
    /\ Constructed
    /\ NothingRead
    /\ threads = NoThreads

\* a method of the accessor family was called and had effect c
Accessor(op, arg, c) ==
    /\ constructed
    /\ accessor_calls < MaxCalls
    /\ inputs' = c.inputs
    /\ outputs' = c.outputs
    /\ ret' = [op |-> op, arg |-> arg, out |-> c.out, queries |-> c.queries]
    /\ calls' = calls + 1
    /\ accessor_calls' = accessor_calls + 1
    /\ event_queries' = event_queries + CountQueries(c.queries, "get_events_by_execution_ids")
    /\ join_state' = IF c.joins = <<>> THEN join_state ELSE c.joins[Len(c.joins)]
    /\ memo' = IF ~memo.set /\ c.joins # <<>> /\ c.joins[1] = "complete"
               THEN [set |-> TRUE, inputs |-> c.inputs, outputs |-> c.outputs]
               ELSE memo
    /\ total_queries' = total_queries + Len(c.queries)
    /\ UNCHANGED <<store, statuses, object, reading, threads>>

Inputs == Accessor("inputs", <<>>, PEStep_inputs(inputs, outputs))

GetInputNames == Accessor("get_input_names", <<>>, PEStep_get_input_names(inputs, outputs))

GetInput ==
    \E name \in ParameterNames :
        Accessor("get_input", <<name>>, PEStep_get_input(inputs, outputs, name))

Outputs == Accessor("outputs", <<>>, PEStep_outputs(inputs, outputs))

GetOutputNames == Accessor("get_output_names", <<>>, PEStep_get_output_names(inputs, outputs))

GetOutput ==
    \E name \in ParameterNames :
        Accessor("get_output", <<name>>, PEStep_get_output(inputs, outputs, name))

Status ==
    LET c == PEStep_status(inputs, outputs)
    IN  /\ constructed
        /\ calls - accessor_calls < MaxPolls
        /\ ret' = [op |-> "status", arg |-> <<>>, out |-> c.out, queries |-> c.queries]
        /\ calls' = calls + 1
        /\ statuses' = <<statuses[2], IF c.out.kind = "return" THEN c.out.val ELSE c.out.exc>>
        /\ total_queries' = total_queries + Len(c.queries)
        /\ UNCHANGED <<store, view, accessor_calls, event_queries, join_state, memo>>
        /\ UNCHANGED <<object, reading, threads>>

\* the pipeline writes an event of this execution
PutEvent ==
    \E e \in AllEvents :
        /\ Len(events) < MaxEvents
        /\ e.artifact_id \in DOMAIN artifacts
        /\ events' = Append(events, e)
        /\ UNCHANGED <<executions, artifacts, artifact_types, view, ret, calls, ghost>>
        /\ UNCHANGED <<object, reading, threads>>

\* the pipeline records the execution, or moves it to another state
PutExecution ==
    \E s \in ExecutionStates :
        /\ IF StepId \in DOMAIN executions THEN executions[StepId] # s ELSE TRUE
        /\ executions' = [i \in {StepId} |-> s]
        /\ UNCHANGED <<events, artifacts, artifact_types, view, ret, calls, ghost>>
        /\ UNCHANGED <<object, reading, threads>>

\* PEStep(StepId, StepName, <the caller's dict>, store)
Construct ==
    LET c == PEStep_init(StepId, StepName, CallerRef)
    IN  /\ ~constructed
        /\ constructed' = TRUE
        /\ step_name' = c.name
        /\ parameters' = c.parameters
        /\ heap' = c.heap
        /\ inputs' = c.inputs
        /\ outputs' = c.outputs
        /\ ret' = [op |-> "__init__", arg |-> <<>>, out |-> Return(<<>>), queries |-> c.queries]
        /\ total_queries' = total_queries + Len(c.queries)
        /\ event_queries' = event_queries + CountQueries(c.queries, "get_events_by_execution_ids")
        /\ UNCHANGED <<store, calls, accessor_calls, join_state, memo, statuses, reading, threads>>

\* a field of the PEStep is read
Field(op, c) ==
    /\ constructed
    /\ ret' = [op |-> op, arg |-> <<>>, out |-> c.out, queries |-> c.queries]
    /\ total_queries' = total_queries + Len(c.queries)
    /\ UNCHANGED <<store, view, calls, accessor_calls, event_queries, join_state, memo,
                   statuses, object, reading, threads>>

GetName == Field("name", PEStep_name)

GetParameters == Field("parameters", PEStep_parameters)

\* the references to dict objects the caller holds: the dict it passed to the
\* constructor, and what the parameters property last returned to it
HeldRefs ==
    {CallerRef} \cup (IF ret.op = "parameters" THEN {ret.out.val} ELSE {})

\* the caller changes a dict it holds a reference to, after construction
MutateDict ==
    \E ref \in HeldRefs, d \in ParameterDicts :
        /\ constructed
        /\ heap[ref] # d
        /\ heap' = [heap EXCEPT ![ref] = d]
        /\ UNCHANGED <<store, view, ret, calls, ghost, constructed, step_name, parameters,
                       reading, threads>>

\* read() is called on the i-th artifact of inputs or of outputs
ReadArtifact(dir, i, materializer_class) ==
    LET self == IF dir = "inputs" THEN inputs[i].value ELSE outputs[i].value
        c == PEArtifact_read(self, materializer_class)
    IN  /\ constructed
        /\ reads < MaxReads
        /\ inputs' = IF dir = "inputs" THEN [inputs EXCEPT ![i].value = c.self] ELSE inputs
        /\ outputs' = IF dir = "outputs" THEN [outputs EXCEPT ![i].value = c.self] ELSE outputs
        /\ read_ret' = [op |-> "read", dir |-> dir, index |-> i, artifact |-> self,
                        materializer_class |-> materializer_class, out |-> c.out,
                        resolved |-> c.resolved, decoded |-> c.decoded]
        /\ prev_read' = read_ret
        /\ reads' = reads + 1
        /\ resolutions' = resolutions + Len(c.resolved)
        /\ storage_reads' = storage_reads + Len(c.decoded)
        /\ UNCHANGED <<store, ret, calls, ghost, object, storage, threads>>

Read ==
    \E dir \in {"inputs", "outputs"}, materializer_class \in {None} \cup OverrideClasses :
        \E i \in 1..Len(IF dir = "inputs" THEN inputs ELSE outputs) :
            ReadArtifact(dir, i, materializer_class)

\* the payload stored at a uri is replaced
WritePayload ==
    \E u \in Uris, p \in Payloads :
        /\ storage[u] # p
        /\ storage' = [storage EXCEPT ![u] = p]
        /\ UNCHANGED <<store, view, ret, calls, ghost, object, threads>>
        /\ UNCHANGED <<read_ret, prev_read, reads, resolutions, storage_reads>>

\* --------------------------------------------- threads inside PEStep.inputs
\* A thread runs PEStep.inputs statement by statement: the guard of
\* _ensure_inputs_outputs_fetched, the three queries into its locals, one pair
\* of the loop per step, then list(self._inputs.values()).  _inputs and
\* _outputs are shared; nothing in the code holds a lock.
FreshThread ==
    [pc |-> "guard", artifact_type_mapping |-> <<>>, events |-> <<>>, artifacts |-> <<>>,
     i |-> 0, out |-> NoError]

ThreadFrame ==
    UNCHANGED <<store, ret, calls, accessor_calls, memo, statuses, object, reading>>

\* if self._inputs or self._outputs: return
TGuard(t) ==
    /\ threads[t].pc = "guard"
    /\ threads' = [threads EXCEPT ![t].pc =
                      IF AlreadyFetched(inputs, outputs) THEN "return" ELSE "types"]
    /\ UNCHANGED <<view, event_queries, join_state, total_queries>>
    /\ ThreadFrame

TTypes(t) ==
    /\ threads[t].pc = "types"
    /\ threads' = [threads EXCEPT ![t].pc = "events",
                                  ![t].artifact_type_mapping = get_artifact_types]
    /\ total_queries' = total_queries + 1
    /\ UNCHANGED <<view, event_queries, join_state>>
    /\ ThreadFrame

TEvents(t) ==
    /\ threads[t].pc = "events"
    /\ threads' = [threads EXCEPT ![t].pc = "artifacts",
                                  ![t].events = get_events_by_execution_ids(<<StepId>>)]
    /\ event_queries' = event_queries + 1
    /\ total_queries' = total_queries + 1
    /\ UNCHANGED <<view, join_state>>
    /\ ThreadFrame

TArtifacts(t) ==
    LET evs == threads[t].events
    IN  /\ threads[t].pc = "artifacts"
        /\ threads' = [threads EXCEPT
                          ![t].pc = "loop",
                          ![t].i = 1,
                          ![t].artifacts =
                              get_artifacts_by_id([k \in 1..Len(evs) |-> evs[k].artifact_id])]
        /\ total_queries' = total_queries + 1
        /\ UNCHANGED <<view, event_queries, join_state>>
        /\ ThreadFrame

\* one iteration of the loop over zip(events, artifacts), on the shared mappings
TLoop(t) ==
    LET th == threads[t]
        i == th.i
    IN  /\ th.pc = "loop"
        /\ IF i > Min(Len(th.events), Len(th.artifacts))
           THEN /\ threads' = [threads EXCEPT ![t].pc = "return"]
                /\ join_state' = "complete"
                /\ UNCHANGED view
           ELSE LET r == JoinLoop(<<th.events[i]>>, <<th.artifacts[i]>>,
                                  th.artifact_type_mapping, 1, inputs, outputs)
                IN  /\ inputs' = r.inputs
                    /\ outputs' = r.outputs
                    /\ IF r.error = NoError
                       THEN /\ threads' = [threads EXCEPT ![t].i = i + 1]
                            /\ UNCHANGED join_state
                       ELSE /\ threads' = [threads EXCEPT ![t].pc = "done",
                                                          ![t].out = r.error]
                            /\ join_state' = "aborted"
        /\ UNCHANGED <<event_queries, total_queries>>
        /\ ThreadFrame

\* return list(self._inputs.values())
TReturn(t) ==
    /\ threads[t].pc = "return"
    /\ threads' = [threads EXCEPT ![t].pc = "done", ![t].out = Return(Values(inputs))]
    /\ UNCHANGED <<view, event_queries, join_state, total_queries>>
    /\ ThreadFrame

\* the accessor family of PEStep over a store that receives events
Next ==
    \/ Inputs
    \/ GetInputNames
    \/ GetInput
    \/ Outputs
    \/ GetOutputNames
    \/ GetOutput
    \/ PutEvent

Spec == Init /\ [][Next]_vars

\* status polled while the pipeline moves the execution through its states,
\* on a step that is populated or not
InitStatus ==
    /\ executions \in {NoExecutions, [i \in {StepId} |-> "NEW"]}
    /\ events \in {<<>>, <<EventProto(10, "data", "INPUT"), EventProto(20, "model", "OUTPUT")>>}
    /\ artifacts = [i \in ArtifactIds |-> ArtifactProto(i)]
    /\ artifact_types \in {[t \in T |-> TypeNames[t]] : T \in {{1}, {1, 2}}}
    /\ inputs = EmptyDict
    /\ outputs = EmptyDict
    /\ ret = NoCall
    /\ calls = 0
    /\ accessor_calls = 0
    /\ event_queries = 0
    /\ join_state = "none"
    /\ memo = NoMemo
    /\ statuses = <<"none", "none">>
    /\ Constructed
    /\ NothingRead
    /\ threads = NoThreads

NextStatus ==
    \/ Status
    \/ PutExecution
    \/ Inputs
    \/ Outputs

SpecStatus == InitStatus /\ [][NextStatus]_vars

\* artifacts of a populated step are read while their payloads are rewritten
InitRead ==
    /\ executions = [i \in {StepId} |-> "COMPLETE"]
    /\ events \in {<<EventProto(10, "data", "OUTPUT"), EventProto(20, "model", "OUTPUT")>>,
                   <<EventProto(10, "data", "INPUT"), EventProto(10, "model", "OUTPUT")>>}
    /\ artifacts = [i \in ArtifactIds |-> ArtifactProto(i)]
    /\ artifact_types = TypeNames
    /\ inputs = EmptyDict
    /\ outputs = EmptyDict
    /\ ret = NoCall
    /\ calls = 0
    /\ accessor_calls = 0
    /\ event_queries = 0
    /\ join_state = "none"
    /\ memo = NoMemo
    /\ statuses = <<"none", "none">>
    /\ Constructed
    /\ NothingRead
    /\ threads = NoThreads

NextRead ==
    \/ Inputs
    \/ Outputs
    \/ Read
    \/ WritePayload

SpecRead == InitRead /\ [][NextRead]_vars

\* the whole life of one PEStep, from its construction on
InitObject ==
    /\ executions \in {NoExecutions, [i \in {StepId} |-> "RUNNING"]}
    /\ events = <<EventProto(10, "data", "INPUT"), EventProto(10, "model", "OUTPUT")>>
    /\ artifacts = [i \in ArtifactIds |-> ArtifactProto(i)]
    /\ artifact_types = TypeNames
    /\ inputs = EmptyDict
    /\ outputs = EmptyDict
    /\ ret = NoCall
    /\ calls = 0
    /\ accessor_calls = 0
    /\ event_queries = 0
    /\ join_state = "none"
    /\ memo = NoMemo
    /\ statuses = <<"none", "none">>
    /\ total_queries = 0
    /\ constructed = FALSE
    /\ step_name = ""
    /\ parameters = 0
    /\ heap = [r \in {CallerRef} |-> CallerDict]
    /\ NothingRead
    /\ threads = NoThreads

NextObject ==
    \/ Construct
    \/ GetName
    \/ GetParameters
    \/ MutateDict
    \/ Status
    \/ Inputs
    \/ GetOutput
    \/ Read
    \/ PutExecution

SpecObject == InitObject /\ [][NextObject]_vars

\* NumThreads threads call inputs on a fresh PEStep over a store at rest
InitThreads ==
    /\ executions = [i \in {StepId} |-> "COMPLETE"]
    /\ events \in {<<>>,
                   <<EventProto(10, "data", "INPUT"), EventProto(20, "model", "INPUT")>>,
                   <<EventProto(10, "data", "INPUT"), EventProto(20, "data", "INPUT")>>,
                   <<EventProto(20, "model", "OUTPUT"), EventProto(10, "data", "INPUT")>>}
    /\ artifacts = [i \in ArtifactIds |-> ArtifactProto(i)]
    /\ artifact_types \in {[t \in T |-> TypeNames[t]] : T \in {{1}, {1, 2}}}
    /\ inputs = EmptyDict
    /\ outputs = EmptyDict
    /\ ret = NoCall
    /\ calls = 0
    /\ accessor_calls = 0
    /\ event_queries = 0
    /\ join_state = "none"
    /\ memo = NoMemo
    /\ statuses = <<"none", "none">>
    /\ Constructed
    /\ NothingRead
    /\ threads = [t \in 1..NumThreads |-> FreshThread]

NextThreads ==
    \/ \E t \in DOMAIN threads : TGuard(t)
    \/ \E t \in DOMAIN threads : TTypes(t)
    \/ \E t \in DOMAIN threads : TEvents(t)
    \/ \E t \in DOMAIN threads : TArtifacts(t)
    \/ \E t \in DOMAIN threads : TLoop(t)
    \/ \E t \in DOMAIN threads : TReturn(t)

SpecThreads == InitThreads /\ [][NextThreads]_vars

\* the events of the execution as the pipeline left them: INPUT and OUTPUT
\* events, at most MaxEvents of them
RecordedEvents ==
    LET io == {e \in AllEvents : e.type \in {"INPUT", "OUTPUT"}}
    IN  UNION {[1..n -> io] : n \in 0..MaxEvents}

\* the accessors and status on a PEStep over a store at rest, in which
\* artifact 10 may have been deleted after its event was recorded
InitPairing ==
    /\ executions = [i \in {StepId} |-> "COMPLETE"]
    /\ events \in RecordedEvents
    /\ artifacts \in {[i \in ids |-> ArtifactProto(i)] : ids \in {ArtifactIds, {20}}}
    /\ artifact_types \in {[t \in T |-> TypeNames[t]] : T \in {{2}, {1, 2}}}
    /\ inputs = EmptyDict
    /\ outputs = EmptyDict
    /\ ret = NoCall
    /\ calls = 0
    /\ accessor_calls = 0
    /\ event_queries = 0
    /\ join_state = "none"
    /\ memo = NoMemo
    /\ statuses = <<"none", "none">>
    /\ Constructed
    /\ NothingRead
    /\ threads = NoThreads

NextPairing ==
    \/ Inputs
    \/ GetInputNames
    \/ GetInput
    \/ Outputs
    \/ GetOutputNames
    \/ GetOutput
    \/ Status

SpecPairing == InitPairing /\ [][NextPairing]_vars

\* ------------------------------------------------------------------ properties
AccessorOps ==
    {"inputs", "outputs", "get_input", "get_output", "get_input_names", "get_output_names"}

\* this step is a call of an accessor / of status
AccessorStep == calls' = calls + 1 /\ ret'.op \in AccessorOps

StatusStep == calls' = calls + 1 /\ ret'.op = "status"

\* this step is an accessor call that ran the join over every pair
JoinStep ==
    AccessorStep /\ ~AlreadyFetched(inputs, outputs) /\ join_state' = "complete"

\* the parameter names of the events of one direction, in store order
EventNames(type) ==
    LET evs == SelectSeq(events, LAMBDA e : e.type = type)
    IN  [i \in 1..Len(evs) |-> evs[i].key]

Distinct(seq) == \A i, j \in 1..Len(seq) : seq[i] = seq[j] => i = j

Position(seq, x) == CHOOSE i \in 1..Len(seq) : seq[i] = x

\* C1: once an accessor has been called, get_events_by_execution_ids has been
\* invoked exactly once in total, whatever the store holds.
C1_EventsQueriedOnce == accessor_calls >= 1 => event_queries = 1

\* C2: the mappings are never left partially populated: when a mapping holds an
\* entry, the join that wrote it processed every (event, artifact) pair, and an
\* accessor returns only after such a join.
C2_NoPartialJoin ==
    /\ AlreadyFetched(inputs, outputs) => join_state = "complete"
    /\ (ret.op \in AccessorOps /\ ret.out.kind = "return") => join_state = "complete"

\* C3: once the first accessor call has populated the mappings, they stay what
\* that call made them, whatever the store receives afterwards.
C3_MemoNeverChanges ==
    memo.set => inputs = memo.inputs /\ outputs = memo.outputs

\* C4: status maps the state of the execution record: COMPLETE or CACHED to
\* Completed, RUNNING to Running, every other code to Failed, and never raises.
C4_StatusMapping ==
    [][(StatusStep /\ StepId \in DOMAIN executions) =>
          /\ ret'.out.kind = "return"
          /\ ret'.out.val \in ExecutionStatus
          /\ ret'.out.val =
                CASE executions[StepId] \in {"COMPLETE", "CACHED"} -> "Completed"
                  [] executions[StepId] = "RUNNING" -> "Running"
                  [] OTHER -> "Failed"]_vars

C4_Witness ==
    /\ ret.op = "status"
    /\ ret.out = Return("Failed")
    /\ StepId \in DOMAIN executions
    /\ executions[StepId] = "UNKNOWN"

\* C5: status is total over the store states: it returns one of the three
\* values, also when the store has no execution record for the step.
C5_StatusTotal ==
    ret.op = "status" => (ret.out.kind = "return" /\ ret.out.val \in ExecutionStatus)

\* C6: every status access queries get_executions_by_id anew and reports the
\* state the record has at that moment, populated mappings or not.
C6_StatusNotCached ==
    [][StatusStep =>
          /\ ret'.queries = <<Query("get_executions_by_id", <<StepId>>)>>
          /\ (StepId \in DOMAIN executions /\ executions[StepId] = "RUNNING")
                => ret'.out = Return("Running")
          /\ (StepId \in DOMAIN executions /\ executions[StepId] = "COMPLETE")
                => ret'.out = Return("Completed")
          /\ UNCHANGED view]_vars

C6_Witness ==
    /\ statuses = <<"Running", "Completed">>
    /\ ret.op = "status"
    /\ AlreadyFetched(inputs, outputs)

\* C7: get_input / get_output return the view stored under the name; for a
\* name that is absent they raise KeyError with the name and exactly the known
\* names of that direction, and the lookup leaves populated mappings as they were.
C7_Lookup ==
    [][(calls' = calls + 1 /\ ret'.op \in {"get_input", "get_output"}
           /\ ~(ret'.out.kind = "raise" /\ "key" \in DOMAIN ret'.out.args)) =>
          LET name == ret'.arg[1]
              d == IF ret'.op = "get_input" THEN inputs' ELSE outputs'
          IN  IF HasKey(d, name)
              THEN ret'.out = Return(GetItem(d, name))
              ELSE /\ ret'.out.kind = "raise"
                   /\ ret'.out.exc = "KeyError"
                   /\ ret'.out.args.name = name
                   /\ ret'.out.args.names = Keys(d)
                   /\ AlreadyFetched(inputs, outputs) => UNCHANGED view]_vars

C7_Witness ==
    /\ ret.op = "get_input"
    /\ ret.out.kind = "raise"
    /\ "names" \in DOMAIN ret.out.args
    /\ ret.out.args.name = "model"
    /\ ret.out.args.names = <<"data">>
    /\ Keys(outputs) = <<"model">>

InSignatureOrder(names) ==
    \A i, j \in 1..Len(names) :
        i < j => Position(Signature, names[i]) < Position(Signature, names[j])

\* C9: the order of a populated mapping is the declaration order of the
\* parameters in the signature of the step function, also when the store
\* returned the events in another order.
C9_DeclarationOrder ==
    AlreadyFetched(inputs, outputs) =>
        InSignatureOrder(Keys(inputs)) /\ InSignatureOrder(Keys(outputs))

\* the last event of the store with this name and direction
LastEvent(name, type) ==
    LET idx == {i \in 1..Len(events) : events[i].key = name /\ events[i].type = type}
    IN  events[CHOOSE i \in idx : \A j \in idx : j <= i]

\* C10: for several events with the same name and direction the mapping holds
\* one entry for the name, built from the last of them; events of the other
\* direction do not touch it.
C10_LastWriteWins ==
    [][JoinStep =>
          \A name \in ParameterNames :
              /\ IF \E i \in 1..Len(events) : events[i].key = name /\ events[i].type = "INPUT"
                 THEN /\ Cardinality({j \in 1..Len(inputs') : inputs'[j].key = name}) = 1
                      /\ GetItem(inputs', name).id = LastEvent(name, "INPUT").artifact_id
                 ELSE ~HasKey(inputs', name)
              /\ IF \E i \in 1..Len(events) : events[i].key = name /\ events[i].type = "OUTPUT"
                 THEN /\ Cardinality({j \in 1..Len(outputs') : outputs'[j].key = name}) = 1
                      /\ GetItem(outputs', name).id = LastEvent(name, "OUTPUT").artifact_id
                 ELSE ~HasKey(outputs', name)]_vars

C10_Witness ==
    /\ join_state = "complete"
    /\ events = <<EventProto(10, "data", "INPUT"), EventProto(20, "data", "INPUT")>>
    /\ Len(inputs) = 1
    /\ inputs[1].key = "data"
    /\ inputs[1].value.id = 20

\* every artifact an event of the store names has a registered type
AllTypesRegistered ==
    \A i \in 1..Len(events) : artifacts[events[i].artifact_id].type_id \in DOMAIN artifact_types

\* C11: the join puts an INPUT event only into inputs and an OUTPUT event only
\* into outputs; an event tagged neither raises nothing, adds no entry and does
\* not keep the events after it from being processed.
C11_DirectionRouting ==
    [][(AccessorStep /\ ~AlreadyFetched(inputs, outputs)) =>
          /\ AllTypesRegistered => join_state' = "complete"
          /\ join_state' = "complete" =>
                /\ \A j \in 1..Len(inputs') :
                      \E i \in 1..Len(events) :
                          /\ events[i].type = "INPUT"
                          /\ events[i].key = inputs'[j].key
                          /\ events[i].artifact_id = inputs'[j].value.id
                /\ \A j \in 1..Len(outputs') :
                      \E i \in 1..Len(events) :
                          /\ events[i].type = "OUTPUT"
                          /\ events[i].key = outputs'[j].key
                          /\ events[i].artifact_id = outputs'[j].value.id
                /\ \A i \in 1..Len(events) :
                      /\ events[i].type = "INPUT" => HasKey(inputs', events[i].key)
                      /\ events[i].type = "OUTPUT" => HasKey(outputs', events[i].key)]_vars

C11_Witness ==
    /\ join_state = "complete"
    /\ events = <<EventProto(10, "data", "DECLARED_OUTPUT"), EventProto(10, "model", "INPUT")>>
    /\ Keys(inputs) = <<"model">>
    /\ outputs = EmptyDict
    /\ ret.op = "inputs"
    /\ ret.out.kind = "return"

\* the queries of one execution of the join over the store's events
JoinQueries ==
    <<Query("get_artifact_types", <<>>),
      Query("get_events_by_execution_ids", <<StepId>>),
      Query("get_artifacts_by_id", [i \in 1..Len(events) |-> events[i].artifact_id])>>

\* C20: every execution of the join issues get_artifact_types, then
\* get_events_by_execution_ids for this step's id, then get_artifacts_by_id for
\* the artifact ids of all returned events in event order, and nothing else; a
\* call that finds the mappings fetched issues no query.
C20_JoinQueries ==
    [][AccessorStep =>
          IF AlreadyFetched(inputs, outputs)
          THEN ret'.queries = <<>>
          ELSE \/ ret'.queries = JoinQueries
               \/ /\ ret'.queries = JoinQueries \o JoinQueries
                  /\ ret'.op \in {"get_input", "get_output"}
                  /\ ~AlreadyFetched(inputs', outputs')]_vars

C20_Witness ==
    /\ ret.op = "outputs"
    /\ Len(ret.queries) = 3
    /\ ret.queries[3] = Query("get_artifacts_by_id", <<10, 10>>)
    /\ events = <<EventProto(10, "data", "DECLARED_OUTPUT"), EventProto(10, "data", "INPUT")>>

\* the store of the round-trip scenario
ScenarioStore ==
    /\ executions = [i \in {StepId} |-> "COMPLETE"]
    /\ events = <<EventProto(10, "data", "INPUT"), EventProto(20, "model", "OUTPUT")>>
    /\ [i \in ArtifactIds |-> <<artifacts[i].type_id, artifacts[i].uri>>]
          = [i \in ArtifactIds |-> IF i = 10 THEN <<1, "/a/10">> ELSE <<2, "/a/20">>]
    /\ artifact_types = [t \in {1, 2} |-> IF t = 1 THEN "Dataset" ELSE "Model"]

\* C18: over the scenario store the step reports Completed, inputs exactly
\* data -> (10, Dataset, /a/10) and outputs exactly model -> (20, Model, /a/20).
C18_RoundTrip ==
    [][(ScenarioStore /\ calls' = calls + 1) =>
          /\ ret'.op = "status" => ret'.out = Return("Completed")
          /\ ret'.op \in AccessorOps =>
                /\ Keys(inputs') = <<"data">>
                /\ <<inputs'[1].value.id, inputs'[1].value.type, inputs'[1].value.uri>>
                      = <<10, "Dataset", "/a/10">>
                /\ Keys(outputs') = <<"model">>
                /\ <<outputs'[1].value.id, outputs'[1].value.type, outputs'[1].value.uri>>
                      = <<20, "Model", "/a/20">>
          /\ ret'.op = "inputs" => ret'.out = Return(Values(inputs'))
          /\ ret'.op = "outputs" => ret'.out = Return(Values(outputs'))]_vars

C18_Witness ==
    /\ ScenarioStore
    /\ statuses[2] = "Completed"
    /\ ret.op = "outputs"
    /\ ret.out.kind = "return"
    /\ Len(ret.out.val) = 1
    /\ ret.out.val[1].id = 20
    /\ Keys(inputs) = <<"data">>

\* this step is a call of PEArtifact.read
ReadStep == reads' = reads + 1

\* C12: read() on an artifact whose source path does not load raises the lookup
\* error, runs no materializer and changes no artifact and no mapping; read()
\* on an artifact whose source path loads returns, whatever failed before.
C12_UnresolvableRead ==
    [][(ReadStep /\ read_ret'.materializer_class = None) =>
          IF read_ret'.artifact.materializer \in DOMAIN SourceClasses
          THEN read_ret'.out.kind = "return"
          ELSE /\ read_ret'.out.kind = "raise"
               /\ read_ret'.out.exc = "LookupError"
               /\ read_ret'.decoded = <<>>
               /\ storage_reads' = storage_reads
               /\ UNCHANGED view]_vars

C12_Witness ==
    /\ prev_read.op = "read"
    /\ prev_read.out.kind = "raise"
    /\ prev_read.dir = "outputs"
    /\ read_ret.dir = "outputs"
    /\ read_ret.index # prev_read.index
    /\ read_ret.materializer_class = None
    /\ read_ret.out.kind = "return"

\* C13: read(materializer_class) loads no source path and runs the class given;
\* read() loads the stored source path once; either way the class is run once
\* on this artifact and what it decodes is returned.
C13_ReadDispatch ==
    [][ReadStep =>
          LET r == read_ret'
          IN  IF r.materializer_class # None
              THEN /\ r.resolved = <<>>
                   /\ resolutions' = resolutions
                   /\ r.decoded = <<[class |-> r.materializer_class, uri |-> r.artifact.uri]>>
                   /\ r.out = Return([decoded_by |-> r.materializer_class,
                                      data |-> storage[r.artifact.uri]])
              ELSE /\ r.resolved = <<r.artifact.materializer>>
                   /\ resolutions' = resolutions + 1
                   /\ r.out.kind = "return" =>
                         /\ r.decoded = <<[class |-> SourceClasses[r.artifact.materializer],
                                           uri |-> r.artifact.uri]>>
                         /\ r.out.val.decoded_by = SourceClasses[r.artifact.materializer]]_vars

C13_Witness ==
    /\ read_ret.op = "read"
    /\ read_ret.materializer_class \in OverrideClasses
    /\ read_ret.artifact.materializer \notin DOMAIN SourceClasses
    /\ read_ret.out.kind = "return"
    /\ resolutions = 0

\* C14: nothing is cached: every read() loads the source path again (when no
\* class is given) and reads the store again, returning the payload the uri
\* holds at that call; the artifact's fields stay what they were.
C14_ReadNotCached ==
    [][ReadStep =>
          /\ read_ret'.materializer_class = None => resolutions' = resolutions + 1
          /\ read_ret'.out.kind = "return" =>
                /\ storage_reads' = storage_reads + 1
                /\ read_ret'.out.val.data = storage[read_ret'.artifact.uri]
          /\ (IF read_ret'.dir = "inputs" THEN inputs' ELSE outputs')[read_ret'.index].value
                = read_ret'.artifact
          /\ UNCHANGED view]_vars

C14_Witness ==
    /\ reads = 2
    /\ resolutions = 2
    /\ storage_reads = 2
    /\ prev_read.artifact = read_ret.artifact
    /\ prev_read.out.kind = "return"
    /\ read_ret.out.kind = "return"
    /\ prev_read.out.val.data = "p1"
    /\ read_ret.out.val.data = "p2"

\* C15: the parameters of the step are a copy made at construction: a change
\* the caller makes afterwards to the dict it passed, or to the dict the
\* parameters property returned, does not show in the step's parameters.
C15_ParametersCopied == constructed => heap[parameters] = CallerDict

\* C16: constructing the PEStep queries nothing; the first query of the store
\* comes with the first status access or accessor call, and reading name or
\* parameters never queries.
C16_NoQueryBeforeAccess ==
    [][/\ (constructed' /\ ~constructed) => (ret'.queries = <<>> /\ total_queries' = 0)
       /\ ret'.op \in {"__init__", "name", "parameters"} =>
             (ret'.queries = <<>> /\ total_queries' = total_queries)
       /\ total_queries' > 0 => calls' > 0]_vars

C16_Witness ==
    /\ constructed
    /\ ret.op = "parameters"
    /\ ret.out = Return(CallerRef)
    /\ total_queries = 0
    /\ events # <<>>

\* the four read queries of the store
ReadQueries ==
    {"get_executions_by_id", "get_artifact_types", "get_events_by_execution_ids",
     "get_artifacts_by_id"}

\* this step is an operation on the PEStep or on one of its artifacts
OperationStep ==
    \/ constructed' # constructed
    \/ calls' = calls + 1
    \/ reads' = reads + 1
    \/ total_queries' # total_queries
    \/ ret'.op # ret.op

\* C17: no operation changes a record of the store, and the operations issue
\* only the four read queries; read() issues none.
C17_StoreReadOnly ==
    [][OperationStep =>
          /\ UNCHANGED store
          /\ \A i \in 1..Len(ret'.queries) : ret'.queries[i].name \in ReadQueries
          /\ reads' = reads + 1 => total_queries' = total_queries]_vars

C17_Witness ==
    /\ ret.op = "status"
    /\ ret.out.kind = "return"
    /\ reads = 1
    /\ read_ret.out.kind = "return"
    /\ AlreadyFetched(inputs, outputs)
    /\ total_queries = 4
    /\ events = <<EventProto(10, "data", "INPUT"), EventProto(10, "model", "OUTPUT")>>

\* every thread has left inputs
AllDone == \A t \in DOMAIN threads : threads[t].pc = "done"

\* the events one uninterrupted run of the loop processes: those before the
\* first one whose artifact has no registered type
Processed ==
    LET bad == {i \in 1..Len(events) :
                   artifacts[events[i].artifact_id].type_id \notin DOMAIN artifact_types}
        n == IF bad = {} THEN Len(events)
             ELSE (CHOOSE i \in bad : \A j \in bad : i <= j) - 1
    IN  SubSeq(events, 1, n)

\* what such a run leaves in the mapping of one direction: one entry per name,
\* in the order of the first event of each name, with the artifact of the last
Left(d, type) ==
    LET evs == SelectSeq(Processed, LAMBDA e : e.type = type)
        first == {i \in 1..Len(evs) : \A j \in 1..(i - 1) : evs[j].key # evs[i].key}
    IN  /\ Len(d) = Cardinality(first)
        /\ \A i \in first :
              LET pos == Cardinality({j \in first : j <= i})
                  last == CHOOSE j \in 1..Len(evs) :
                              /\ evs[j].key = evs[i].key
                              /\ \A k \in 1..Len(evs) : evs[k].key = evs[i].key => k <= j
              IN  /\ d[pos].key = evs[i].key
                  /\ d[pos].value.id = evs[last].artifact_id

\* C19: whatever the interleaving of the threads that call inputs, the join is
\* performed exactly once, and every thread returns the same, fully populated
\* inputs.
C19_ThreadsJoinOnce ==
    /\ event_queries <= 1
    /\ AllDone => event_queries = 1
    /\ \A t \in DOMAIN threads :
          (threads[t].pc = "done" /\ threads[t].out.kind = "return") =>
              /\ Left(inputs, "INPUT")
              /\ threads[t].out.val = Values(inputs)

\* What the unguarded code does keep under threads: the join is performed at
\* least once and at most once per thread, and once every thread has left
\* inputs the mappings hold what one uninterrupted run of the join leaves.
ThreadsFinalMappings ==
    /\ event_queries <= Cardinality(DOMAIN threads)
    /\ \A t \in DOMAIN threads : threads[t].pc \notin {"guard", "types", "events"} => event_queries >= 1
    /\ AllDone => (Left(inputs, "INPUT") /\ Left(outputs, "OUTPUT"))

\* a thread that found the mappings non-empty returned one of two inputs
ThreadsPartialReturn ==
    /\ AllDone
    /\ event_queries >= 1
    /\ Len(inputs) = 2
    /\ \E t \in DOMAIN threads :
          threads[t].out.kind = "return" /\ Len(threads[t].out.val) = 1

\* the artifact list the store returns for the events of the execution, and
\* the number of positions zip pairs
PairedArtifacts ==
    get_artifacts_by_id([k \in 1..Len(events) |-> events[k].artifact_id])

Paired == Min(Len(events), Len(PairedArtifacts))

\* view v under name k comes from the pair at position i, of direction type
FromPair(k, v, i, type) ==
    LET event_proto == events[i]
        artifact_proto == PairedArtifacts[i]
    IN  /\ event_proto.type = type
        /\ k = event_proto.key
        /\ v.id = event_proto.artifact_id
        /\ artifact_proto.type_id \in DOMAIN artifact_types
        /\ v.type = artifact_types[artifact_proto.type_id]
        /\ v.uri = artifact_proto.uri
        /\ v.materializer = (IF MATERIALIZERS_PROPERTY_KEY \in DOMAIN artifact_proto.properties
                             THEN artifact_proto.properties[MATERIALIZERS_PROPERTY_KEY]
                             ELSE "")

\* C21: every view in the mappings comes from one positional pair
\* (events[i], artifacts[i]): name and id from events[i]; type name, uri and
\* materializer from artifacts[i], the i-th record of the list the store
\* returned.
C21_PositionalPair ==
    /\ \A n \in 1..Len(inputs) :
          \E i \in 1..Paired : FromPair(inputs[n].key, inputs[n].value, i, "INPUT")
    /\ \A n \in 1..Len(outputs) :
          \E i \in 1..Paired : FromPair(outputs[n].key, outputs[n].value, i, "OUTPUT")

\* a join has built a view whose record is not the record of the event's id
C21_Witness ==
    /\ join_state = "complete"
    /\ \E n \in 1..Len(inputs) : \E i \in 1..Paired :
          /\ FromPair(inputs[n].key, inputs[n].value, i, "INPUT")
          /\ PairedArtifacts[i].id # events[i].artifact_id

\* the names a mapping holds
KeySet(d) == {d[n].key : n \in 1..Len(d)}

\* the names of the events of one direction among the paired positions
PairedNames(type) == {events[i].key : i \in {j \in 1..Paired : events[j].type = type}}

\* the paired positions whose record has no registered type
UnregisteredPairs ==
    {i \in 1..Paired : PairedArtifacts[i].type_id \notin DOMAIN artifact_types}

\* this step is an accessor call that ran the join on lists of different lengths
MismatchedJoinStep ==
    /\ AccessorStep
    /\ ~AlreadyFetched(inputs, outputs)
    /\ Len(PairedArtifacts) # Len(events)

\* C22: when get_artifacts_by_id returns a list of another length than the
\* event list, the join raises nothing on that account: it runs over the first
\* min(#events, #artifacts) positions only (raising only the KeyError of a type
\* lookup among them), builds no view for the remaining events, and the
\* accessor returns the resulting mapping as the step's inputs or outputs.
C22_ShortListUnchecked ==
    [][MismatchedJoinStep =>
          IF UnregisteredPairs = {}
          THEN /\ join_state' = "complete"
               /\ KeySet(inputs') = PairedNames("INPUT")
               /\ KeySet(outputs') = PairedNames("OUTPUT")
               /\ ret'.op = "inputs" =>
                     ret'.out.kind = "return" /\ ret'.out.val = Values(inputs')
               /\ ret'.op = "outputs" =>
                     ret'.out.kind = "return" /\ ret'.out.val = Values(outputs')
               /\ ret'.op = "get_input_names" =>
                     ret'.out.kind = "return" /\ ret'.out.val = Keys(inputs')
               /\ ret'.op = "get_output_names" =>
                     ret'.out.kind = "return" /\ ret'.out.val = Keys(outputs')
          ELSE /\ join_state' = "aborted"
               /\ ret'.out.kind = "raise"
               /\ ret'.out.exc = "KeyError"]_vars

\* inputs returned one view although the store holds a second INPUT event,
\* whose position had no artifact
C22_Witness ==
    /\ ret.op = "inputs"
    /\ ret.out.kind = "return"
    /\ Len(ret.out.val) = 1
    /\ join_state = "complete"
    /\ Len(PairedArtifacts) < Len(events)
    /\ \E j \in (Paired + 1)..Len(events) :
          events[j].type = "INPUT" /\ events[j].key \notin KeySet(inputs)

\* a complete join has left at least one entry in a mapping
PopulatedByJoin == join_state = "complete" /\ Len(inputs) + Len(outputs) >= 1

\* C23: once a complete join has left an entry in a mapping, no call of the
\* six accessors issues a store query or changes a mapping; status still
\* queries the store on every access.
C23_NoQueryAfterJoin ==
    [][/\ (AccessorStep /\ PopulatedByJoin) =>
             /\ ret'.queries = <<>>
             /\ total_queries' = total_queries
             /\ event_queries' = event_queries
             /\ UNCHANGED view
       /\ (StatusStep /\ PopulatedByJoin) =>
             /\ Len(ret'.queries) = 1
             /\ ret'.queries[1].name = "get_executions_by_id"
             /\ total_queries' = total_queries + 1
             /\ UNCHANGED view]_vars

\* after a join that filled only the inputs, outputs was called without a
\* query, and status was then called with one
C23_Witness ==
    /\ join_state = "complete"
    /\ inputs # EmptyDict
    /\ outputs = EmptyDict
    /\ event_queries = 1
    /\ accessor_calls = 2
    /\ ret.op = "status"
    /\ total_queries = 4

====
